---- MODULE Spec2Model ----
(***************************************************************************)
(* discord-joinerbot: the notification engine (message.py, class Message   *)
(* over the process-wide MessageState), the occupant store (database.py)   *)
(* and the event handlers that drive the engine (joinerbot.py).            *)
(*                                                                         *)
(* The program runs on one asyncio event loop.  A coroutine runs without   *)
(* interruption from one await that really suspends to the next; the       *)
(* awaits that suspend are asyncio.sleep (the two timers) and the three    *)
(* channel calls (send, edit, delete).  Every action below is one such     *)
(* uninterrupted run.                                                      *)
(***************************************************************************)
EXTENDS Integers, Sequences, FiniteSets, Bags, TLC

\* ------------------------------------------------------------- bounds
MaxOcc == 2          \* occupant ids are 1..MaxOcc
MaxEvents == 5       \* voice events in a run of the bot
MaxVoiceEvents == 5  \* raw voice events in a run of the bot
MaxApi == 4          \* direct calls in a run of the engine alone
MaxFairEvents == 3   \* voice events in a run under the event loop's scheduling
MaxHarnessEvents == 3  \* direct calls in a run that also resets the state
MaxStoreEvents == 4  \* voice events in a run that also closes the connection
MaxFormatLen == 6    \* occupants, and count, given to _format_message

\* ------------------------------------------------- program constants
BatchDelay == 30
COOLDOWN == 600
RejoinMinutes == 5
RejoinSeconds == RejoinMinutes * 60

\* The horizon of a run: one cooldown and two batch windows.  Events stop
\* there; what is in flight still completes.
MaxTime == COOLDOWN + 2 * BatchDelay

\* Python's None, for each Optional field
NoMsg == 0
NoTime == -1
NoCount == -1
NoList == <<0>>
NoJoiner == 0

Ids == 1..MaxOcc
Names == <<"Alice", "Bob", "Charlie", "Dave", "Eve", "Frank", "Grace">>

\* The clock advances to the end of the next running sleep, or by the rejoin
\* interval when that comes first.  The code reads the clock only to compare
\* an elapsed time with 600 s (and, in the store, with 5 minutes) and to fix
\* the two deadlines, so an event inside a window behaves as one at its start.
TickSteps == {RejoinSeconds}

Min(a, b) == IF a <= b THEN a ELSE b

\* member lists: ordered, ids unique (callers.user_id is UNIQUE)
Snapshots ==
  {q \in UNION {[1..k -> Ids] : k \in 0..MaxOcc} :
     \A i, j \in DOMAIN q : i # j => q[i] # q[j]}

VARIABLES
  target_channel,       \* Message._target_channel is set
  last_message,         \* MessageState.last_message (a handle, or NoMsg)
  last_message_time,    \* MessageState.last_message_time
  queued_task,          \* MessageState.queued_task: the task object it refers to
  pending_update,       \* MessageState.pending_update
  batch_timer,          \* MessageState.batch_timer: the task object it refers to
  pending_joins,        \* MessageState.pending_joins
  batch_member_list,    \* MessageState.batch_member_list
  batch_callers_count,  \* MessageState.batch_callers_count
  batch_delay,          \* MessageState.batch_delay
  calls,                \* public operations suspended at a channel call
  detached,             \* bag of cancelled tasks no field refers to, not yet run by the loop
  orphaned,             \* bag of running tasks whose field reset() has set to None
  chan,                 \* handles of the undeleted messages on the channel
  nextId,               \* next handle channel.send returns
  now,                  \* time.time()
  db_callers,           \* Database: the callers table, ORDER BY joined_at
  history,              \* Database: per user, the timestamp of the newest 'join' row
  db_connection,        \* Database._connection: its transaction, and how it binds parameters
  last_count,           \* history: the occupant count last given to the engine
  last_send,            \* history: time of the last send, unset by a call or return of delete()
  last_act,             \* history: the public operation that was just called or has just returned
  events,               \* voice events handled, or direct calls made, so far
  formatted,            \* a call of _format_message: its arguments and its result
  voice                 \* history: the voice event just handled and the calls it made

vars == <<target_channel, last_message, last_message_time, queued_task,
          pending_update, batch_timer, pending_joins, batch_member_list,
          batch_callers_count, batch_delay, calls, detached, orphaned, chan,
          nextId, now,
          db_callers, history, db_connection, last_count, last_send,
          last_act, events, formatted, voice>>

\* ------------------------------------------------------------ formatter

IndexError == "<IndexError>"

\* no result yet
NoText == ""

NoFormat == [ml |-> <<>>, n |-> 0, text |-> NoText]

\* the arguments _format_message is given: an ordered list of distinct
\* occupants and any count, equal to the list's length or not
FormatIds == 1..MaxFormatLen

FormatLists ==
  {q \in UNION {[1..k -> FormatIds] : k \in 0..MaxFormatLen} :
     \A i, j \in DOMAIN q : i # j => q[i] # q[j]}

FormatCounts == 0..MaxFormatLen

usernames(member_list) == [i \in 1..Len(member_list) |-> Names[member_list[i]]]

\* _format_message with the number of the others fixed at two
_format_message_two_others(member_list, callers) ==
  LET u == usernames(member_list)
      n == Len(u)
  IN IF n = 0 THEN ToString(callers) \o " people are in voice chat"
     ELSE IF callers = 1 THEN u[1] \o " joined voice chat"
     ELSE IF callers = 2 THEN
       IF n < 2 THEN IndexError
       ELSE u[1] \o " and " \o u[2] \o " are in voice chat"
     ELSE IF callers = 3 THEN
       IF n < 3 THEN IndexError
       ELSE u[1] \o ", " \o u[2] \o ", and " \o u[3] \o " are in voice chat"
     ELSE IF callers = 4 THEN
       IF n < 4 THEN IndexError
       ELSE u[1] \o ", " \o u[2] \o ", " \o u[3] \o ", and " \o u[4]
              \o " are in voice chat"
     ELSE IF n < 3 THEN IndexError
     ELSE u[1] \o ", " \o u[2] \o ", " \o u[3]
            \o ", and 2 others are in voice chat"

_format_message(member_list, callers) ==
  LET u == usernames(member_list)
      n == Len(u)
  IN IF n = 0 THEN ToString(callers) \o " people are in voice chat"
     ELSE IF callers = 1 THEN u[1] \o " joined voice chat"
     ELSE IF callers = 2 THEN
       IF n < 2 THEN IndexError
       ELSE u[1] \o " and " \o u[2] \o " are in voice chat"
     ELSE IF callers = 3 THEN
       IF n < 3 THEN IndexError
       ELSE u[1] \o ", " \o u[2] \o ", and " \o u[3] \o " are in voice chat"
     ELSE IF callers = 4 THEN
       IF n < 4 THEN IndexError
       ELSE u[1] \o ", " \o u[2] \o ", " \o u[3] \o ", and " \o u[4]
              \o " are in voice chat"
     ELSE IF n < 3 THEN IndexError
     ELSE u[1] \o ", " \o u[2] \o ", " \o u[3] \o ", and "
            \o ToString(callers - 3) \o " others are in voice chat"

\* usernames[i] beyond the end of the list: IndexError leaves _format_message
\* and, nothing catching it, the operation or task that called
_format_message_raises(member_list, callers) ==
  _format_message(member_list, callers) = IndexError

\* ---------------------------------------------------------------- tasks
\* An asyncio.Task running _send_batched_notification or _delayed_send.
\*   st     where the coroutine is suspended: "sleep" (asyncio.sleep), "del"
\*          (the delete of the previous message inside _send_message_now),
\*          "send" (channel.send), or "none"/"done"; "raise" and "return"
\*          are how _send_message_now ended when it made no channel call
\*   cancel Task.cancel() was called and the task has not run since
\*   due    when the sleep ends
\*   ml, n  the member_list and callers of the coroutine's frame
\*   old    the handle whose delete() is awaited
\* and four history fields, written by Observe below and read by no code:
\*   first   (batch timer) it was started by a create with is_first_person
\*   offered (batch timer) member_list of the newest non-suppressed create
\*           that arrived while the timer slept; (deferred send) member_list
\*           of the create that enqueued it
\*   win     (deferred send) it was enqueued while a batch timer started by a
\*           first-person create slept
\*   emptied (batch timer) delete() was called while it slept
NoTask == [st |-> "none", cancel |-> FALSE, due |-> 0, ml |-> <<>>, n |-> 0,
           old |-> NoMsg, first |-> FALSE, offered |-> NoList, win |-> FALSE,
           emptied |-> FALSE]

done(task) == task.st \in {"none", "done"}

create_task(delay, member_list, callers, t) ==
  [NoTask EXCEPT !.st = "sleep", !.due = t + delay, !.ml = member_list,
                 !.n = callers]

\* Task.cancel(): nothing on a finished task; otherwise CancelledError is
\* thrown into the coroutine when the loop next runs it.
cancel(task) == IF done(task) THEN task ELSE [task EXCEPT !.cancel = TRUE]

\* a finished task: its frame is gone
DoneTask(task) == [NoTask EXCEPT !.st = "done"]

\* ---------------------------------------------------- the engine's state
\* last_act: op is the public operation ("create", "update", "delete"), with
\* its arguments; ret says it has returned; via is the channel call it had
\* been suspended at ("edit", "delete") or "none"; rep says the same
\* operation had returned just before this call; res is the channel's answer
\* to that call ("ok", "gone", "fail").  It is NoAct in every state that some
\* other step has led to.
NoAct == [op |-> "none", ret |-> TRUE, via |-> "none", ml |-> <<>>,
          first |-> FALSE, supp |-> FALSE, rep |-> FALSE, res |-> "none"]

\* voice: on says the run is one of raw voice events, whose handlers are
\* recorded; user, before, after are the event's arguments (channels by
\* name), action what _get_voice_action returned, made the public operations
\* of the engine called on this step, in order, with their arguments, k what
\* the operation resumed on this step had left to do (as Ret below).  Outside on, it is NoVoice in every
\* state that some other step has led to.
NoVoice == [on |-> FALSE, user |-> 0, before |-> "", after |-> "",
            action |-> "", made |-> <<>>,
            k |-> [k |-> "none", ml |-> <<>>, n |-> 0, first |-> FALSE,
                   supp |-> FALSE]]

St ==
  [target_channel |-> target_channel, last_message |-> last_message,
   last_message_time |-> last_message_time, queued_task |-> queued_task,
   pending_update |-> pending_update, batch_timer |-> batch_timer,
   pending_joins |-> pending_joins, batch_member_list |-> batch_member_list,
   batch_callers_count |-> batch_callers_count, batch_delay |-> batch_delay,
   calls |-> calls, detached |-> detached, orphaned |-> orphaned,
   chan |-> chan, nextId |-> nextId, now |-> now,
   db_callers |-> db_callers, history |-> history,
   db_connection |-> db_connection,
   last_count |-> last_count, last_send |-> last_send, last_act |-> NoAct,
   events |-> events, voice |-> [NoVoice EXCEPT !.on = voice.on]]

Apply(s) ==
  /\ target_channel' = s.target_channel
  /\ last_message' = s.last_message
  /\ last_message_time' = s.last_message_time
  /\ queued_task' = s.queued_task
  /\ pending_update' = s.pending_update
  /\ batch_timer' = s.batch_timer
  /\ pending_joins' = s.pending_joins
  /\ batch_member_list' = s.batch_member_list
  /\ batch_callers_count' = s.batch_callers_count
  /\ batch_delay' = s.batch_delay
  /\ calls' = s.calls
  /\ detached' = s.detached
  /\ orphaned' = s.orphaned
  /\ chan' = s.chan
  /\ nextId' = s.nextId
  /\ now' = s.now
  /\ db_callers' = s.db_callers
  /\ history' = s.history
  /\ db_connection' = s.db_connection
  /\ last_count' = s.last_count
  /\ last_send' = s.last_send
  /\ last_act' = s.last_act
  /\ events' = s.events
  /\ formatted' = formatted
  /\ voice' = s.voice

\* What a suspended public operation does after the channel call returns:
\* return to its caller ("ret"), or, in _handle_join, go on to create.
Ret == [k |-> "ret", ml |-> <<>>, n |-> 0, first |-> FALSE, supp |-> FALSE]

Suspend(s, op, msg, text, k) ==
  [s EXCEPT !.calls = Append(@, [op |-> op, msg |-> msg, text |-> text, k |-> k,
                                 by |-> "none"])]

\* ------------------------------------------------------------- Message

\* Message.set_batch_delay, which the tests' fixtures call
set_batch_delay(s, delay) == [s EXCEPT !.batch_delay = delay]

_is_batch_active(s) == ~done(s.batch_timer)

_should_start_batch(s, is_first_person, current_time) ==
  \/ is_first_person
  \/ s.last_message_time = NoTime
  \/ (current_time - s.last_message_time) >= COOLDOWN

_should_queue(s, current_time) ==
  /\ s.last_message_time # NoTime
  /\ (current_time - s.last_message_time) < COOLDOWN

\* delete()'s clearing without the cancellation of the batch timer
delete_clear_keeps_timer(s) ==
  [s EXCEPT !.pending_joins = <<>>,
            !.batch_member_list = NoList,
            !.batch_callers_count = NoCount]

\* delete()'s clearing done as MessageState.reset() does it for the fields
\* of a batch and the timestamp
delete_clear_resets_time(s) ==
  [s EXCEPT !.pending_joins = <<>>,
            !.batch_member_list = NoList,
            !.batch_callers_count = NoCount,
            !.batch_timer = cancel(@),
            !.last_message_time = NoTime]

\* delete(), after the channel call (or with no live message): lines 142-147
delete_clear(s) ==
  [s EXCEPT !.pending_joins = <<>>,
            !.batch_member_list = NoList,
            !.batch_callers_count = NoCount,
            !.batch_timer = cancel(@)]

\* delete(): with a live message it suspends at last_message.delete()
delete(s, k) ==
  IF s.last_message # NoMsg
  THEN Suspend(s, "delete", s.last_message, "", k)
  ELSE delete_clear(s)

\* delete() resumed without the finally clause: a generic failure leaves the
\* handle in place
delete_resume_keeps_handle(s, c, outcome) ==
  [s EXCEPT !.chan = IF outcome = "ok" THEN @ \ {c.msg} ELSE @,
            !.last_message = IF outcome = "fail" THEN @ ELSE NoMsg,
            !.pending_joins = <<>>,
            !.batch_member_list = NoList,
            !.batch_callers_count = NoCount,
            !.batch_timer = cancel(@)]

\* delete() resumed: outcome is "ok", "gone" (discord.NotFound) or "fail"
\* (discord.HTTPException); the finally clause runs in each case
delete_resume(s, c, outcome) ==
  delete_clear([s EXCEPT !.chan = IF outcome = "ok" THEN @ \ {c.msg} ELSE @,
                         !.last_message = NoMsg])

\* update() testing the count before the live message
update_zero_first(s, member_list, callers, k) ==
  IF ~s.target_channel THEN s
  ELSE IF callers = 0 THEN delete(s, k)
  ELSE IF s.last_message = NoMsg THEN s
  ELSE IF _format_message_raises(member_list, callers) THEN s
  ELSE Suspend(s, "edit", s.last_message,
               _format_message(member_list, callers), k)

\* _format_message (119) is called before the try of 121-127: when it raises,
\* the exception leaves update with no channel call made
update(s, member_list, callers, k) ==
  IF ~s.target_channel \/ s.last_message = NoMsg THEN s
  ELSE IF callers = 0 THEN delete(s, k)
  ELSE IF _format_message_raises(member_list, callers) THEN s
  ELSE Suspend(s, "edit", s.last_message,
               _format_message(member_list, callers), k)

\* update() resumed, treating a generic failure like a message that is gone
update_resume_drops_handle(s, c, outcome) ==
  IF outcome # "ok" THEN [s EXCEPT !.last_message = NoMsg] ELSE s

\* update() resumed after last_message.edit()
update_resume(s, c, outcome) ==
  IF outcome = "gone" THEN [s EXCEPT !.last_message = NoMsg] ELSE s

\* Task.cancel() only marks the task: it is still there, in its sleep or
\* inside a channel call, until the loop runs it and CancelledError leaves
\* the coroutine.  Once no field refers to it, it is kept in detached.
Detach(s, task) ==
  IF task.cancel /\ ~done(task)
  THEN [s EXCEPT !.detached =
                   @ (+) SetToBag({[st |-> task.st, old |-> task.old]})]
  ELSE s

\* a task that is running (not finished, not cancelled) and that no field
\* refers to any more
Orphan(kind, task) ==
  IF done(task) \/ task.cancel THEN EmptyBag
  ELSE SetToBag({[kind |-> kind, task |-> task]})

\* MessageState.reset, which the tests' fixtures call: every field but
\* batch_delay goes back to its first value.  The two tasks are not
\* cancelled: they run on for as long as their event loop does.
reset(s) ==
  LET s1 == Detach(Detach(s, s.batch_timer), s.queued_task)
  IN [s1 EXCEPT !.last_message = NoMsg,
                !.last_message_time = NoTime,
                !.queued_task = NoTask,
                !.pending_update = FALSE,
                !.batch_timer = NoTask,
                !.pending_joins = <<>>,
                !.batch_member_list = NoList,
                !.batch_callers_count = NoCount,
                !.orphaned = @ (+) Orphan("batch", s.batch_timer)
                               (+) Orphan("queued", s.queued_task)]

\* _queue_message without the test of last_message_time
_queue_message_unchecked(s, member_list, callers, current_time) ==
  LET s1 == [s EXCEPT !.queued_task = cancel(@)]
      delay == COOLDOWN - (current_time - s1.last_message_time)
  IN [Detach(s1, s1.queued_task) EXCEPT
        !.pending_update = TRUE,
        !.queued_task = create_task(delay, member_list, callers, s.now)]

_queue_message(s, member_list, callers, current_time) ==
  LET s1 == [s EXCEPT !.queued_task = cancel(@)]
  IN IF s1.last_message_time = NoTime THEN s1
     ELSE LET delay == COOLDOWN - (current_time - s1.last_message_time)
          IN [Detach(s1, s1.queued_task) EXCEPT
                !.pending_update = TRUE,
                !.queued_task = create_task(delay, member_list, callers, s.now)]

\* _start_batch starting a timer whether or not one is active
_start_batch_restarts(s, new_joiner, member_list, callers) ==
  LET s1 == IF new_joiner # NoJoiner
            THEN [s EXCEPT !.pending_joins = Append(@, new_joiner)]
            ELSE s
  IN [s1 EXCEPT !.batch_timer = create_task(s.batch_delay, <<>>, 0, s.now),
                !.batch_member_list = member_list,
                !.batch_callers_count = callers]

_start_batch(s, new_joiner, member_list, callers) ==
  LET s1 == IF new_joiner # NoJoiner
            THEN [s EXCEPT !.pending_joins = Append(@, new_joiner)]
            ELSE s
      s2 == IF ~_is_batch_active(s1)
            THEN [s1 EXCEPT !.batch_timer =
                              create_task(s.batch_delay, <<>>, 0, s.now)]
            ELSE s1
  IN [s2 EXCEPT !.batch_member_list = member_list,
                !.batch_callers_count = callers]

_add_to_batch(s, new_joiner, member_list, callers) ==
  LET s1 == IF new_joiner # NoJoiner
            THEN [s EXCEPT !.pending_joins = Append(@, new_joiner)]
            ELSE s
  IN [s1 EXCEPT !.batch_member_list = member_list,
                !.batch_callers_count = callers]

\* create() without the test of the target channel
create_without_channel(s, member_list, callers, is_first_person, suppress_notification) ==
  IF suppress_notification
  THEN IF s.last_message # NoMsg THEN update(s, member_list, callers, Ret)
       ELSE s
  ELSE LET new_joiner == IF member_list # <<>>
                         THEN member_list[Len(member_list)] ELSE NoJoiner
       IN IF _should_start_batch(s, is_first_person, s.now)
          THEN _start_batch(s, new_joiner, member_list, callers)
          ELSE IF _should_queue(s, s.now)
          THEN IF new_joiner # NoJoiner
               THEN _queue_message(s, <<new_joiner>>, 1, s.now)
               ELSE s
          ELSE s

\* create() handing the whole snapshot and its count to the deferred send
create_queues_snapshot(s, member_list, callers, is_first_person, suppress_notification) ==
  IF ~s.target_channel THEN s
  ELSE IF suppress_notification
  THEN IF s.last_message # NoMsg THEN update(s, member_list, callers, Ret)
       ELSE s
  ELSE LET new_joiner == IF member_list # <<>>
                         THEN member_list[Len(member_list)] ELSE NoJoiner
       IN IF _should_start_batch(s, is_first_person, s.now)
          THEN _start_batch(s, new_joiner, member_list, callers)
          ELSE IF _should_queue(s, s.now)
          THEN IF new_joiner # NoJoiner
               THEN _queue_message(s, member_list, callers, s.now)
               ELSE s
          ELSE s

\* create() without the suppressed branch
create_unsuppressed(s, member_list, callers, is_first_person, suppress_notification) ==
  IF ~s.target_channel THEN s
  ELSE LET new_joiner == IF member_list # <<>>
                         THEN member_list[Len(member_list)] ELSE NoJoiner
       IN IF _should_start_batch(s, is_first_person, s.now)
          THEN _start_batch(s, new_joiner, member_list, callers)
          ELSE IF _should_queue(s, s.now)
          THEN IF new_joiner # NoJoiner
               THEN _queue_message(s, <<new_joiner>>, 1, s.now)
               ELSE s
          ELSE s

\* create() suppressing a rejoin only when it is not the first person
create_suppresses_unless_first(s, member_list, callers, is_first_person, suppress_notification) ==
  IF ~s.target_channel THEN s
  ELSE IF suppress_notification /\ ~is_first_person
  THEN IF s.last_message # NoMsg THEN update(s, member_list, callers, Ret)
       ELSE s
  ELSE create_unsuppressed(s, member_list, callers, is_first_person,
                           suppress_notification)

create(s, member_list, callers, is_first_person, suppress_notification) ==
  IF ~s.target_channel THEN s
  ELSE LET current_time == s.now IN
    IF suppress_notification
    THEN IF s.last_message # NoMsg THEN update(s, member_list, callers, Ret)
         ELSE s
    ELSE LET new_joiner == IF member_list # <<>>
                           THEN member_list[Len(member_list)] ELSE NoJoiner
         IN IF _should_start_batch(s, is_first_person, current_time)
            THEN _start_batch(s, new_joiner, member_list, callers)
            ELSE IF _should_queue(s, current_time)
            THEN IF new_joiner # NoJoiner
                 THEN _queue_message(s, <<new_joiner>>, 1, current_time)
                 ELSE s
            ELSE IF _is_batch_active(s)
            THEN _add_to_batch(s, new_joiner, member_list, callers)
            ELSE s

\* _send_message_now without the delete of the previous message
_send_message_now_keeps_old(s, task, member_list, callers) ==
  [task EXCEPT !.st = IF _format_message_raises(member_list, callers)
                      THEN "raise" ELSE "send",
               !.old = NoMsg, !.ml = member_list, !.n = callers]

\* _send_message_now up to its first channel call: the task `task` (a copy
\* of the one running) moves to the delete of the previous message, or
\* straight to channel.send; it ends in "raise" when _format_message (162)
\* raises, in "return" without a target channel (164-166)
_send_message_now(s, task, member_list, callers) ==
  [task EXCEPT !.st = IF s.last_message # NoMsg THEN "del"
                      ELSE IF _format_message_raises(member_list, callers)
                      THEN "raise"
                      ELSE IF s.target_channel THEN "send" ELSE "return",
               !.old = s.last_message,
               !.ml = member_list,
               !.n = callers]

\* channel.send returned: the handle is stored on success only
send_resume(s, outcome) ==
  IF outcome = "ok"
  THEN [s EXCEPT !.last_message = s.nextId,
                 !.chan = @ \cup {s.nextId},
                 !.nextId = @ + 1]
  ELSE s

\* the end of a flush starting the next batch timer itself
batch_epilogue_rearms(s) ==
  [s EXCEPT !.last_message_time = s.now,
            !.pending_joins = <<>>,
            !.batch_member_list = NoList,
            !.batch_callers_count = NoCount,
            !.batch_timer = create_task(s.batch_delay, <<>>, 0, s.now)]

\* _send_batched_notification after _send_message_now returned: 219-222
batch_epilogue(s) ==
  [s EXCEPT !.last_message_time = s.now,
            !.pending_joins = <<>>,
            !.batch_member_list = NoList,
            !.batch_callers_count = NoCount,
            !.batch_timer = DoneTask(@)]

\* _delayed_send after _send_message_now returned: 204-205
queued_epilogue(s) ==
  [s EXCEPT !.last_message_time = s.now,
            !.pending_update = FALSE,
            !.queued_task = DoneTask(@)]

\* _send_batched_notification when its sleep is over; with no previous
\* message and no target channel _send_message_now returns at once.  Only
\* CancelledError is caught: an exception of _send_message_now ends the task
\* before 219-222.
batch_wake(s) ==
  IF s.pending_joins # <<>> /\ s.batch_member_list # NoList
  THEN LET task == _send_message_now(s, s.batch_timer, s.batch_member_list,
                                     IF s.batch_callers_count = NoCount THEN 0
                                     ELSE s.batch_callers_count)
       IN IF task.st = "return" THEN batch_epilogue(s)
          ELSE IF task.st = "raise" THEN [s EXCEPT !.batch_timer = DoneTask(@)]
          ELSE [s EXCEPT !.batch_timer = task]
  ELSE [s EXCEPT !.batch_timer = DoneTask(@)]

\* _delayed_send when its sleep is over; an exception of _send_message_now
\* ends the task before 204-205
queued_wake(s) ==
  IF s.pending_update /\ s.queued_task.ml # <<>>
  THEN LET task == _send_message_now(s, s.queued_task, s.queued_task.ml,
                                     s.queued_task.n)
       IN IF task.st = "return" THEN queued_epilogue(s)
          ELSE IF task.st = "raise" THEN [s EXCEPT !.queued_task = DoneTask(@)]
          ELSE [s EXCEPT !.queued_task = task]
  ELSE [s EXCEPT !.queued_task = DoneTask(@)]

\* the awaited delete of the previous message returned (NotFound and
\* HTTPException are passed over); the coroutine goes on to channel.send
task_delete_resume(s, task, outcome) ==
  [s EXCEPT !.chan = IF outcome = "ok" THEN @ \ {task.old} ELSE @]

\* ------------------------------------------------------------ Database

\* The connection is opened by psycopg.connect without autocommit: the first
\* statement after a commit or rollback begins a transaction, and
\* CURRENT_TIMESTAMP and NOW() are the time at which the current transaction
\* began.  tx is NoTime when no transaction is open, Aborted after a
\* statement of the open transaction failed, and else the time it began.
\* binding is how the driver treats the %s inside INTERVAL '%s minutes': put
\* into the literal on the client, or sent to the server as a parameter the
\* literal does not refer to.  It is the same on every call of a run and is
\* not known before the first call of was_recently_connected.
Aborted == -2

NoTransaction == [tx |-> NoTime, binding |-> "unknown"]

Bindings(s) ==
  IF s.db_connection.binding = "unknown"
  THEN {[s EXCEPT !.db_connection.binding = b] : b \in {"client", "server"}}
  ELSE {s}

InFailedSqlTransaction(s) == s.db_connection.tx = Aborted

\* cur.execute of a statement that succeeds
execute(s) ==
  IF s.db_connection.tx = NoTime THEN [s EXCEPT !.db_connection.tx = s.now]
  ELSE s

commit(s) == [s EXCEPT !.db_connection.tx = NoTime]

rollback(s) == [s EXCEPT !.db_connection.tx = NoTime]

\* Database.close: the connection is closed and its transaction, open or
\* aborted, is gone; _get_connection connects again at the next call
close(s) == [s EXCEPT !.db_connection.tx = NoTime]

\* NOW() and CURRENT_TIMESTAMP inside the open transaction
NOW(s) == s.db_connection.tx

\* The two SELECTs return these; their cur.execute leaves the transaction
\* open (see execute in the handlers).
get_num_callers(s) == Len(s.db_callers)

get_callers(s) == s.db_callers

InTable(s, user_id) == \E i \in DOMAIN s.db_callers : s.db_callers[i] = user_id

\* INSERT without the ON CONFLICT clause or the UNIQUE constraint
add_caller_appends(s, user_id) ==
  IF InFailedSqlTransaction(s) THEN rollback(s)
  ELSE commit([execute(s) EXCEPT !.db_callers = Append(@, user_id)])

\* INSERT ... ON CONFLICT (user_id) DO NOTHING, then commit; a failed
\* statement is rolled back
add_caller(s, user_id) ==
  IF InFailedSqlTransaction(s) THEN rollback(s)
  ELSE IF InTable(s, user_id) THEN commit(execute(s))
  ELSE commit([execute(s) EXCEPT !.db_callers = Append(@, user_id)])

del_caller(s, user_id) ==
  IF InFailedSqlTransaction(s) THEN rollback(s)
  ELSE commit([execute(s) EXCEPT
                 !.db_callers = SelectSeq(@, LAMBDA x : x # user_id)])

\* cur.rowcount of the statement that led from s to s2
rowcount(s, s2) ==
  IF Len(s2.db_callers) >= Len(s.db_callers)
  THEN Len(s2.db_callers) - Len(s.db_callers)
  ELSE Len(s.db_callers) - Len(s2.db_callers)

\* what add_caller and del_caller return
add_caller_returns(s, user_id) == rowcount(s, add_caller(s, user_id)) > 0

del_caller_returns(s, user_id) == rowcount(s, del_caller(s, user_id)) > 0

\* INSERT of a history row, whose timestamp defaults to CURRENT_TIMESTAMP,
\* then commit; in an aborted transaction the INSERT fails and is rolled back
log_join_leave(s, user_id, action) ==
  IF InFailedSqlTransaction(s) THEN rollback(s)
  ELSE LET s1 == execute(s)
       IN commit(IF action = "join"
                 THEN [s1 EXCEPT !.history[user_id] = NOW(s1)]
                 ELSE s1)

\* the SELECT of was_recently_connected raises: in an aborted transaction,
\* and when the server is sent the literal '$2 minutes'
was_recently_connected_raises(s) ==
  InFailedSqlTransaction(s) \/ s.db_connection.binding = "server"

\* ... and leaves the transaction aborted
was_recently_connected_raised(s) == [s EXCEPT !.db_connection.tx = Aborted]

\* a 'join' row newer than NOW() - minutes
was_recently_connected(s, user_id) ==
  LET s1 == execute(s)
  IN /\ s1.history[user_id] # NoTime
     /\ s1.history[user_id] > NOW(s1) - RejoinSeconds

\* ---------------------------------------------------- history recording
\* The public operations as their callers invoke them: the operation itself,
\* then the history variables the properties below read.  No operator of the
\* program reads a history variable.

Sleeping(task) == task.st = "sleep" /\ ~task.cancel

Suspended(s, s2) == Len(s2.calls) > Len(s.calls)

\* the call record of an operation that has just suspended names the public
\* operation it belongs to
By(s, s2, who) ==
  IF Suspended(s, s2) THEN [s2 EXCEPT !.calls[Len(s2.calls)].by = who] ELSE s2

\* a batch window is open: a timer started by a first-person create sleeps
\* and has not expired
Window(s) ==
  Sleeping(s.batch_timer) /\ s.batch_timer.first /\ s.now < s.batch_timer.due

\* delete() was called: what was enqueued in a window no longer counts as
\* part of it, and the next send opens a new sequence of sends
Observe_delete(s, s2) ==
  [s2 EXCEPT !.last_count = 0,
             !.last_send = NoTime,
             !.queued_task.win = FALSE,
             !.batch_timer.emptied = @ \/ Sleeping(s.batch_timer)]

\* create() was called; a suppressed create with count 0 and a live message
\* goes through update() to delete()
Observe_create(s, s2, member_list, callers, is_first_person, suppress) ==
  LET started == done(s.batch_timer) /\ ~done(s2.batch_timer)
      enqueued == /\ ~suppress /\ s.target_channel
                  /\ ~_should_start_batch(s, is_first_person, s.now)
                  /\ _should_queue(s, s.now)
                  /\ member_list # <<>>
      heard == ~suppress /\ s.target_channel /\ Sleeping(s2.batch_timer)
      deleted == /\ suppress /\ s.target_channel
                 /\ s.last_message # NoMsg /\ callers = 0
      s3 == [By(s, s2, "create") EXCEPT
               !.last_count = callers,
               !.batch_timer.first = IF started THEN is_first_person ELSE @,
               !.batch_timer.offered = IF heard THEN member_list ELSE @,
               !.queued_task.win = IF enqueued THEN Window(s) ELSE @,
               !.queued_task.offered = IF enqueued THEN member_list ELSE @]
  IN IF deleted THEN Observe_delete(s, s3) ELSE s3

\* a public operation is called by a handler of a recorded run
Made(s, op, member_list, callers, is_first_person, suppress) ==
  IF s.voice.on
  THEN [s EXCEPT !.voice.made =
          Append(@, [op |-> op, ml |-> member_list, n |-> callers,
                     first |-> is_first_person, supp |-> suppress])]
  ELSE s

Message_create(s, member_list, callers, is_first_person, suppress) ==
  LET s0 == Made(s, "create", member_list, callers, is_first_person, suppress)
  IN Observe_create(s0, create(s0, member_list, callers, is_first_person,
                               suppress),
                    member_list, callers, is_first_person, suppress)

Message_update(s, member_list, callers, k) ==
  LET s0 == Made(s, "update", member_list, callers, FALSE, FALSE)
      s2 == By(s0, update(s0, member_list, callers, k), "update")
  IN IF callers = 0 /\ s.target_channel /\ s.last_message # NoMsg
     THEN Observe_delete(s0, s2)
     ELSE [s2 EXCEPT !.last_count = callers]

Message_delete(s, k) ==
  LET s0 == Made(s, "delete", <<>>, 0, FALSE, FALSE)
  IN Observe_delete(s0, By(s0, delete(s0, k), "delete"))

\* a send that returned a handle is stamped
Observe_send(s, s2) ==
  IF s2.nextId # s.nextId THEN [s2 EXCEPT !.last_send = s.now] ELSE s2

\* ------------------------------------------------------------ JoinerBot

\* _handle_leave reading the count before it removes the caller
_handle_leave_counts_first(s, user_id) ==
  LET n == get_num_callers(s)
      s1 == execute(del_caller(log_join_leave(s, user_id, "leave"), user_id))
  IN IF n > 0 THEN Message_update(s1, get_callers(s1), n, Ret)
     ELSE Message_delete(s1, Ret)

\* log_join_leave ends with a commit or a rollback, so the statements after
\* it find a connection that takes them; the SELECT of get_num_callers
\* begins the transaction the handler leaves open
_handle_leave(s, user_id) ==
  LET s1 == execute(del_caller(log_join_leave(s, user_id, "leave"), user_id))
      n == get_num_callers(s1)
  IN IF n > 0 THEN Message_update(s1, get_callers(s1), n, Ret)
     ELSE Message_delete(s1, Ret)

\* When the rejoin check raises, the handler ends there (joinerbot.py 81).
\* Else its SELECT has the transaction open, log_join_leave commits it, and
\* the SELECT of get_num_callers begins the one the handler leaves open.
_handle_join(s, user_id) ==
  IF was_recently_connected_raises(s) THEN was_recently_connected_raised(s)
  ELSE
  LET is_recent_rejoin == was_recently_connected(s, user_id)
      s1 == execute(add_caller(log_join_leave(execute(s), user_id, "join"),
                               user_id))
      n == get_num_callers(s1)
      member_list == get_callers(s1)
      is_first_person == n = 1
      k == [k |-> "create", ml |-> member_list, n |-> n,
            first |-> is_first_person, supp |-> is_recent_rejoin]
  IN IF ~is_first_person
     THEN LET s2 == Message_update(s1, member_list, n, k)
          IN IF Suspended(s1, s2) THEN s2
             ELSE Message_create(s2, member_list, n, is_first_person,
                                 is_recent_rejoin)
     ELSE Message_create(s1, member_list, n, is_first_person, is_recent_rejoin)

\* channels by name, as str(channel) gives them: no channel, the watched
\* channel, any other channel
NoChannel == "None"
WatchedChannel == "watched"
Channels == {NoChannel, WatchedChannel, "other"}

NoAction == "none"

\* the classifier looking at the after-channel only
_get_voice_action_after_only(before, after) ==
  IF after = WatchedChannel THEN "join"
  ELSE IF before = WatchedChannel THEN "leave"
  ELSE NoAction

_get_voice_action(before, after) ==
  LET before_watched == before = WatchedChannel
      after_watched == after = WatchedChannel
  IN IF ~before_watched /\ ~after_watched THEN NoAction
     ELSE IF before_watched /\ ~after_watched THEN "leave"
     ELSE IF after_watched /\ ~before_watched THEN "join"
     ELSE NoAction

on_voice_state_update(s, user_id, before, after) ==
  LET action == _get_voice_action(before, after)
      s1 == IF s.voice.on THEN [s EXCEPT !.voice.action = action] ELSE s
  IN IF action = NoAction THEN s1
     ELSE IF action = "leave" THEN _handle_leave(s1, user_id)
     ELSE _handle_join(s1, user_id)

\* the rest of a handler once its channel call has returned
Continue(s, k) ==
  IF k.k = "create" THEN Message_create(s, k.ml, k.n, k.first, k.supp) ELSE s

\* -------------------------------------------------------------- actions

Counted(s) == [s EXCEPT !.events = @ + 1]

\* a direct call of a public operation, recorded with its arguments
Acted(s, s2, op, member_list, is_first_person, suppress) ==
  [s2 EXCEPT !.last_act = [op |-> op, ret |-> ~Suspended(s, s2), via |-> "none",
                           ml |-> member_list, first |-> is_first_person,
                           supp |-> suppress,
                           rep |-> last_act.op = op /\ last_act.ret,
                           res |-> "none"],
             !.events = @ + 1]

\* a suspended operation has gone on after its channel call
Resumed(s, c) ==
  IF c.k.k = "ret"
  THEN [s EXCEPT !.last_act = [NoAct EXCEPT !.op = c.by, !.via = c.op]]
  ELSE s

\* ... with the channel's answer
Answered(s, outcome) ==
  IF s.last_act.op = "none" THEN s ELSE [s EXCEPT !.last_act.res = outcome]

Remove(q, i) == [j \in 1..(Len(q) - 1) |-> IF j < i THEN q[j] ELSE q[j + 1]]

\* what the channel answers to edit/delete of handle m; F holds "fail" when
\* the channel may fail with a generic HTTPException
Outcomes(m, F) == (IF m \in chan THEN {"ok"} ELSE {"gone"}) \cup F

SendOutcomes(F) == {"ok"} \cup F

Init ==
  /\ target_channel = FALSE
  /\ last_message = NoMsg
  /\ last_message_time = NoTime
  /\ queued_task = NoTask
  /\ pending_update = FALSE
  /\ batch_timer = NoTask
  /\ pending_joins = <<>>
  /\ batch_member_list = NoList
  /\ batch_callers_count = NoCount
  /\ batch_delay = BatchDelay
  /\ calls = <<>>
  /\ detached = EmptyBag
  /\ orphaned = EmptyBag
  /\ chan = {}
  /\ nextId = 1
  /\ now = 0
  /\ db_callers = <<>>
  /\ history = [i \in Ids |-> NoTime]
  /\ db_connection = NoTransaction
  /\ last_count = 0
  /\ last_send = NoTime
  /\ last_act = NoAct
  /\ events = 0
  /\ formatted = NoFormat
  /\ voice = NoVoice

\* on_ready found the target channel: Message.set_channel
set_channel ==
  /\ ~target_channel
  /\ Apply([St EXCEPT !.target_channel = TRUE])

\* on_voice_state_update classified as a join of user_id, stored or not
VoiceJoin ==
  \E user_id \in Ids :
    /\ now < MaxTime /\ events < MaxEvents
    /\ \E s0 \in Bindings(St) :
         LET s == _handle_join(s0, user_id) IN Apply(Counted(s))

\* on_voice_state_update classified as a leave of user_id, in the table or
\* not: the classifier looks at the two channels only
VoiceLeave ==
  \E user_id \in Ids :
    /\ now < MaxTime /\ events < MaxEvents
    /\ LET s == _handle_leave(St, user_id) IN Apply(Counted(s))

\* on_voice_state_update with any member and any two channels, recorded
VoiceStateUpdate ==
  \E user_id \in Ids, before \in Channels, after \in Channels :
    /\ now < MaxTime /\ events < MaxVoiceEvents
    /\ LET s0 == [St EXCEPT !.voice = [NoVoice EXCEPT !.on = TRUE,
                                                      !.user = user_id,
                                                      !.before = before,
                                                      !.after = after]]
       IN \E s1 \in (IF _get_voice_action(before, after) = "join"
                      THEN Bindings(s0) ELSE {s0}) :
            LET s == on_voice_state_update(s1, user_id, before, after)
            IN Apply(Counted(s))

\* The engine called directly, as the repository's tests do: any member
\* list (callers is its length), any flags.
ApiCreate ==
  \E member_list \in Snapshots, is_first_person \in BOOLEAN, suppress \in BOOLEAN :
    /\ now < MaxTime /\ events < MaxApi
    /\ LET s == Message_create(St, member_list, Len(member_list),
                               is_first_person, suppress)
       IN Apply(Acted(St, s, "create", member_list,
                                  is_first_person, suppress))

ApiUpdate ==
  \E member_list \in Snapshots :
    /\ now < MaxTime /\ events < MaxApi
    /\ LET s == Message_update(St, member_list, Len(member_list), Ret)
       IN Apply(Acted(St, s, "update", member_list, FALSE, FALSE))

ApiDelete ==
  /\ now < MaxTime /\ events < MaxApi
  /\ LET s == Message_delete(St, Ret)
     IN Apply(Acted(St, s, "delete", <<>>, FALSE, FALSE))

\* _queue_message called directly, as the repository's tests do
ApiQueueMessage ==
  \E member_list \in Snapshots :
    /\ now < MaxTime /\ events < MaxApi
    /\ LET s == _queue_message(St, member_list, Len(member_list), now)
       IN Apply(Acted(St, s, "enqueue", member_list, FALSE, FALSE))

\* a suspended update()/delete() gets the channel's answer and runs on
CallResume(F) ==
  \E i \in DOMAIN calls : \E outcome \in Outcomes(calls[i].msg, F) :
    LET c == calls[i]
        s0 == [St EXCEPT !.calls = Remove(@, i),
                         !.voice.k = IF voice.on THEN c.k ELSE @]
        s1 == IF c.op = "edit" THEN update_resume(s0, c, outcome)
              ELSE [delete_resume(s0, c, outcome) EXCEPT !.last_send = NoTime]
        s2 == Answered(Resumed(Continue(s1, c.k), c), outcome)
    IN Apply(s2)

\* the batch timer's sleep ends although the task was cancelled
BatchWake_ignores_cancel ==
  /\ batch_timer.st = "sleep"
  /\ now >= batch_timer.due
  /\ Apply(batch_wake(St))

\* the batch timer's sleep ends
BatchWake ==
  /\ Sleeping(batch_timer)
  /\ now >= batch_timer.due
  /\ Apply(batch_wake(St))

\* the deferred send's sleep ends
QueuedWake ==
  /\ Sleeping(queued_task)
  /\ now >= queued_task.due
  /\ Apply(queued_wake(St))

\* _send_message_now in the batch task after the delete of the old message:
\* when _format_message (162) raises the task ends there, the epilogue not
\* run; without a target channel it returns and the caller's epilogue runs
batch_delete_resume(s, outcome) ==
  LET s1 == task_delete_resume(s, s.batch_timer, outcome)
  IN IF _format_message_raises(s.batch_timer.ml, s.batch_timer.n)
     THEN [s1 EXCEPT !.batch_timer = DoneTask(@)]
     ELSE IF s1.target_channel THEN [s1 EXCEPT !.batch_timer.st = "send"]
     ELSE batch_epilogue(s1)

queued_delete_resume(s, outcome) ==
  LET s1 == task_delete_resume(s, s.queued_task, outcome)
  IN IF _format_message_raises(s.queued_task.ml, s.queued_task.n)
     THEN [s1 EXCEPT !.queued_task = DoneTask(@)]
     ELSE IF s1.target_channel THEN [s1 EXCEPT !.queued_task.st = "send"]
     ELSE queued_epilogue(s1)

\* _send_message_now in the batch task: the old message's delete returned
BatchDeleteResume(F) ==
  /\ batch_timer.st = "del" /\ ~batch_timer.cancel
  /\ \E outcome \in Outcomes(batch_timer.old, F) :
       Apply(batch_delete_resume(St, outcome))

QueuedDeleteResume(F) ==
  /\ queued_task.st = "del" /\ ~queued_task.cancel
  /\ \E outcome \in Outcomes(queued_task.old, F) :
       Apply(queued_delete_resume(St, outcome))

\* channel.send returned in the batch task; the flush runs to its end
BatchSendResume(F) ==
  /\ batch_timer.st = "send" /\ ~batch_timer.cancel
  /\ \E outcome \in SendOutcomes(F) :
       Apply(Observe_send(St, batch_epilogue(send_resume(St, outcome))))

QueuedSendResume(F) ==
  /\ queued_task.st = "send" /\ ~queued_task.cancel
  /\ \E outcome \in SendOutcomes(F) :
       Apply(Observe_send(St, queued_epilogue(send_resume(St, outcome))))

\* A channel call abandoned by cancellation: the request may or may not have
\* reached the channel; its answer is never read.
Abandoned(s, st, old) ==
  {s} \cup (IF st = "del" THEN {[s EXCEPT !.chan = @ \ {old}]}
            ELSE IF st = "send"
            THEN {[s EXCEPT !.chan = @ \cup {s.nextId}, !.nextId = @ + 1]}
            ELSE {})

\* The loop runs a cancelled task: CancelledError leaves the coroutine.
\* (queued_task never refers to a cancelled task: _queue_message replaces the
\* task it cancels, since it is only reached with last_message_time set.)
BatchCancelled ==
  /\ batch_timer.cancel
  /\ \E s \in Abandoned(St, batch_timer.st, batch_timer.old) :
       Apply([s EXCEPT !.batch_timer = DoneTask(@)])

DetachedCancelled ==
  \E d \in BagToSet(detached) :
    \E s \in Abandoned(St, d.st, d.old) :
      Apply([s EXCEPT !.detached = @ (-) SetToBag({d})])

\* Time passes, never beyond the end of a running sleep.
Due(task) == IF Sleeping(task) THEN task.due ELSE MaxTime

\* A 'join' row counts in was_recently_connected while it is newer than
\* NOW() - 5 minutes, and NOW() is never earlier than the beginning of the
\* open transaction, or than the clock when none is open; a row too old for
\* that is left out of history.
Expire(h, t) == IF h # NoTime /\ h > t - RejoinSeconds THEN h ELSE NoTime

Earliest(s, t) == IF s.db_connection.tx >= 0 THEN s.db_connection.tx ELSE t

Soonest(S) == IF S = {} THEN MaxTime ELSE CHOOSE x \in S : \A y \in S : x <= y

Tick ==
  \E d \in TickSteps :
    LET t == Min(Min(Min(now + d, MaxTime),
                     Min(Due(batch_timer), Due(queued_task))),
                 Soonest({Due(o.task) : o \in BagToSet(orphaned)}))
    IN /\ t > now
       /\ Apply([St EXCEPT !.now = t,
                           !.history =
                              [i \in Ids |-> Expire(@[i], Earliest(St, t))]])

Fail == {"fail"}

\* what the event loop runs besides the handlers: the suspended calls, the
\* two tasks the fields refer to, and the cancelled tasks
Engine(F) ==
  \/ CallResume(F)
  \/ BatchWake
  \/ QueuedWake
  \/ BatchDeleteResume(F)
  \/ QueuedDeleteResume(F)
  \/ BatchSendResume(F)
  \/ QueuedSendResume(F)
  \/ BatchCancelled
  \/ DetachedCancelled
  \/ Tick

\* the channel never fails with a generic HTTPException
Reliable == {}

\* the bot: voice events drive the engine
Next ==
  \/ set_channel
  \/ VoiceJoin
  \/ VoiceLeave
  \/ Engine(Fail)

Spec == Init /\ [][Next]_vars

\* After the horizon, when events have stopped, the clock still runs on to
\* the end of the next running sleep.
Drain ==
  /\ now >= MaxTime
  /\ \E task \in {batch_timer, queued_task} :
       /\ Sleeping(task) /\ task.due > now
       /\ \A other \in {batch_timer, queued_task} :
            Sleeping(other) => task.due <= other.due
       /\ Apply([St EXCEPT !.now = task.due,
                           !.history =
                              [i \in Ids |-> Expire(@[i], Earliest(St, task.due))]])

\* what the event loop is bound to run: a sleep that is over, a channel call
\* that has its answer, a cancelled task; and time does not stop
Scheduled == Engine(Fail) \/ Drain

\* the voice events of a run under scheduling
FairJoin == events < MaxFairEvents /\ VoiceJoin

FairLeave == events < MaxFairEvents /\ VoiceLeave

NextFair ==
  \/ set_channel
  \/ FairJoin
  \/ FairLeave
  \/ Engine(Fail)
  \/ Drain

\* The bot under the event loop's scheduling.  Voice events are under no
\* obligation to arrive; a run has finitely many steps (events stop at the
\* horizon, no task restarts itself), so weak fairness of the loop as a whole
\* runs every task that is ready.
SpecFair == Init /\ [][NextFair]_vars /\ WF_vars(Scheduled)

\* the bot on a channel whose calls succeed or report the message gone
NextReliable ==
  \/ set_channel
  \/ VoiceJoin
  \/ VoiceLeave
  \/ Engine(Reliable)

SpecReliable == Init /\ [][NextReliable]_vars

\* the bot under raw voice events, on a channel whose calls succeed or
\* report the message gone
NextVoice ==
  \/ set_channel
  \/ VoiceStateUpdate
  \/ Engine(Reliable)

SpecVoice == Init /\ [][NextVoice]_vars

\* the engine under direct calls of its public operations
NextApi ==
  \/ set_channel
  \/ ApiCreate
  \/ ApiUpdate
  \/ ApiDelete
  \/ Engine(Fail)

SpecApi == Init /\ [][NextApi]_vars

\* the engine under direct calls of create, delete and _queue_message, on a
\* channel whose calls succeed or report the message gone
NextEnqueue ==
  \/ set_channel
  \/ ApiCreate
  \/ ApiDelete
  \/ ApiQueueMessage
  \/ Engine(Reliable)

SpecEnqueue == Init /\ [][NextEnqueue]_vars

\* Database.close, which no code of the repository calls, between the
\* voice events of the bot
DatabaseClose == Apply(close(St))

StoreJoin == events < MaxStoreEvents /\ VoiceJoin

StoreLeave == events < MaxStoreEvents /\ VoiceLeave

NextStore ==
  \/ set_channel
  \/ StoreJoin
  \/ StoreLeave
  \/ DatabaseClose
  \/ Engine(Reliable)

SpecStore == Init /\ [][NextStore]_vars

\* The tests' fixtures: MessageState.reset and Message.set_batch_delay.
BatchDelays == {1, BatchDelay}

HarnessReset ==
  /\ now < MaxTime
  /\ Apply(Acted(St, reset(St), "reset", <<>>, FALSE, FALSE))

HarnessSetBatchDelay ==
  \E delay \in BatchDelays :
    /\ delay # batch_delay
    /\ Apply(set_batch_delay(St, delay))

\* The loop runs a task that reset() has left without a field.  It is the
\* coroutine of _send_batched_notification or _delayed_send as before: it
\* reads and writes the state of the class, and nothing refers to it.
Adopt(s, o) ==
  IF o.kind = "batch"
  THEN [s EXCEPT !.batch_timer = o.task, !.orphaned = @ (-) SetToBag({o})]
  ELSE [s EXCEPT !.queued_task = o.task, !.orphaned = @ (-) SetToBag({o})]

Release(s, s2, o) ==
  IF o.kind = "batch"
  THEN [s2 EXCEPT !.batch_timer = s.batch_timer,
                  !.orphaned = @ (+) Orphan("batch", s2.batch_timer)]
  ELSE [s2 EXCEPT !.queued_task = s.queued_task,
                  !.orphaned = @ (+) Orphan("queued", s2.queued_task)]

OrphanWake ==
  \E o \in BagToSet(orphaned) :
    /\ o.task.st = "sleep" /\ now >= o.task.due
    /\ LET s == Adopt(St, o)
       IN Apply(Release(St, IF o.kind = "batch" THEN batch_wake(s)
                            ELSE queued_wake(s), o))

OrphanDeleteResume(F) ==
  \E o \in BagToSet(orphaned) :
    /\ o.task.st = "del"
    /\ \E outcome \in Outcomes(o.task.old, F) :
         LET s == Adopt(St, o)
         IN Apply(Release(St, IF o.kind = "batch"
                              THEN batch_delete_resume(s, outcome)
                              ELSE queued_delete_resume(s, outcome), o))

OrphanSendResume(F) ==
  \E o \in BagToSet(orphaned) :
    /\ o.task.st = "send"
    /\ \E outcome \in SendOutcomes(F) :
         LET s == send_resume(Adopt(St, o), outcome)
         IN Apply(Release(St, Observe_send(St, IF o.kind = "batch"
                                               THEN batch_epilogue(s)
                                               ELSE queued_epilogue(s)), o))

\* the engine under direct calls, with the fixtures' two operations
HarnessCall ==
  /\ events < MaxHarnessEvents
  /\ (ApiCreate \/ ApiUpdate \/ ApiDelete \/ HarnessReset)

NextHarness ==
  \/ set_channel
  \/ HarnessCall
  \/ HarnessSetBatchDelay
  \/ Engine(Fail)
  \/ OrphanWake
  \/ OrphanDeleteResume(Fail)
  \/ OrphanSendResume(Fail)

SpecHarness == Init /\ [][NextHarness]_vars

\* _format_message called on its own, as the repository's tests call it,
\* before or after the channel is set
InitFormat ==
  /\ target_channel = FALSE
  /\ last_message = NoMsg
  /\ last_message_time = NoTime
  /\ queued_task = NoTask
  /\ pending_update = FALSE
  /\ batch_timer = NoTask
  /\ pending_joins = <<>>
  /\ batch_member_list = NoList
  /\ batch_callers_count = NoCount
  /\ batch_delay = BatchDelay
  /\ calls = <<>>
  /\ detached = EmptyBag
  /\ orphaned = EmptyBag
  /\ chan = {}
  /\ nextId = 1
  /\ now = 0
  /\ db_callers = <<>>
  /\ history = [i \in Ids |-> NoTime]
  /\ db_connection = NoTransaction
  /\ last_count = 0
  /\ last_send = NoTime
  /\ last_act = NoAct
  /\ events = 0
  /\ voice = NoVoice
  /\ \E member_list \in FormatLists, callers \in FormatCounts :
       formatted = [ml |-> member_list, n |-> callers, text |-> NoText]

Format ==
  /\ formatted.text = NoText
  /\ formatted' = [formatted EXCEPT
                     !.text = _format_message(formatted.ml, formatted.n)]
  /\ UNCHANGED <<target_channel, last_message, last_message_time, queued_task,
                 pending_update, batch_timer, pending_joins, batch_member_list,
                 batch_callers_count, batch_delay, calls, detached, orphaned,
                 chan, nextId, now,
                 db_callers, history, db_connection, last_count, last_send,
                 last_act, events, voice>>

NextFormat ==
  \/ Format
  \/ set_channel

SpecFormat == InitFormat /\ [][NextFormat]_vars

\* ------------------------------------------------------------ properties

\* the step on which channel.send returns a handle that becomes the live message
SendStep == nextId' # nextId /\ last_message' = nextId

InFlight(task) == task.st \in {"del", "send"}

\* C1: joins that arrive while a batch opened by a first-person create is
\* still waiting, with no delete in between, are announced by that batch's one
\* message: none of them is handed to a deferred send that goes to the channel
\* on its own.
C1_OneMessagePerWindow == ~(queued_task.win /\ InFlight(queued_task))

\* C2: the text a batch flush sends is the format of the occupant snapshot
\* (and its count) given to the newest non-suppressed create that was called
\* while that batch timer was waiting.
C2_FlushSendsNewestSnapshot ==
  InFlight(batch_timer) =>
    _format_message(batch_timer.ml, batch_timer.n)
      = _format_message(batch_timer.offered, Len(batch_timer.offered))

\* C3: a live message exists only while the occupant count last given to the
\* engine is non-zero: once delete() has run (its channel call is no longer
\* outstanding), last_message stays unset until a later create.
C3_LiveOnlyWhileOccupied ==
  last_message # NoMsg =>
    \/ last_count # 0
    \/ \E i \in DOMAIN calls : calls[i].op = "delete"

\* C4: at most one undeleted message exists on the channel at any time, and
\* it is the one last_message refers to.
C4_SingleLiveMessage == chan \subseteq {last_message}

\* C5: two consecutive sends of a new message with no delete() between them
\* are at least the cooldown window (600 s) apart.
C5_CooldownBetweenSends ==
  [][SendStep /\ last_send # NoTime => now - last_send >= COOLDOWN]_vars

\* A direct call of the public operation op is made on this step; its
\* arguments are in last_act'.
ApiStep(op) == events' # events /\ last_act'.op = op

\* the program's part of a task record
Frame(task) == <<task.st, task.cancel, task.due, task.ml, task.n, task.old>>

NothingSent == nextId' = nextId /\ chan' = chan /\ last_message' = last_message

\* what delete() leaves behind
Cleared ==
  /\ last_message = NoMsg
  /\ pending_joins = <<>>
  /\ batch_member_list = NoList
  /\ batch_callers_count = NoCount
  /\ (done(batch_timer) \/ batch_timer.cancel)

\* a create that is neither suppressed nor first-person arrives less than
\* 600 s after last_message_time
C6_InCooldown ==
  /\ ApiStep("create") /\ ~last_act'.first /\ ~last_act'.supp
  /\ target_channel
  /\ last_message_time # NoTime /\ now - last_message_time < COOLDOWN

\* it sends nothing and starts no batch timer; the one deferred send now
\* pending ends its sleep at last_message_time + 600; a deferred send that was
\* pending is cancelled and no field refers to it
C6_Deferred ==
  /\ NothingSent /\ calls' = calls
  /\ Frame(batch_timer') = Frame(batch_timer)
  /\ pending_update'
  /\ Sleeping(queued_task')
  /\ queued_task'.due = last_message_time + COOLDOWN
  /\ detached' = detached (+)
       (IF ~done(queued_task)
        THEN SetToBag({[st |-> queued_task.st, old |-> queued_task.old]})
        ELSE EmptyBag)

\* the loop runs a superseded deferred send
C6_Unwinds == BagCardinality(detached') < BagCardinality(detached)

\* the create of a join (the occupants include the joiner) routes it to the
\* cooldown queue as C6 says
C6_EnqueueReplaces ==
  [][C6_InCooldown /\ last_act'.ml # <<>> => C6_Deferred]_vars

\* C6: a non-suppressed, non-first-person create of a join inside the
\* cooldown sends nothing, starts no batch timer, cancels the deferred send
\* that was pending and leaves exactly one pending, due at
\* last_message_time + 600 whatever the time of the enqueue; and a superseded
\* deferred send never sends: when the loop runs it, no message is posted.
C6_CooldownEnqueue ==
  [][/\ C6_InCooldown /\ last_act'.ml # <<>> => C6_Deferred
     /\ C6_Unwinds => nextId' = nextId]_vars

\* C6, for a deferred send superseded in its sleep: when the loop runs it,
\* nothing reaches the channel and no field changes
C6_SupersededAsleepIsSilent ==
  [][\A d \in BagToSet(detached) :
       d.st = "sleep" /\ detached' = detached (-) SetToBag({d}) =>
         /\ NothingSent /\ calls' = calls
         /\ batch_timer' = batch_timer /\ queued_task' = queued_task
         /\ pending_update' = pending_update
         /\ last_message_time' = last_message_time]_vars

\* C7: create with suppress_notification and a live message (count > 0)
\* issues exactly one edit of that message, with the format of the occupants
\* and count, and no send; neither the call nor the return of the edit changes
\* batch_timer, queued_task, pending_joins, batch_member_list,
\* batch_callers_count, pending_update or last_message_time.
C7_SuppressedCreateEditsOnly ==
  [][/\ (ApiStep("create") /\ last_act'.supp /\ last_message # NoMsg
           /\ last_act'.ml # <<>>)
          => /\ calls' = Append(calls,
                   [op |-> "edit", msg |-> last_message,
                    text |-> _format_message(last_act'.ml, Len(last_act'.ml)),
                    k |-> Ret, by |-> "create"])
             /\ NothingSent
             /\ UNCHANGED <<batch_timer, queued_task, pending_joins,
                            batch_member_list, batch_callers_count,
                            pending_update, last_message_time, detached>>
     /\ (events' = events /\ last_act'.op = "create" /\ last_act'.via = "edit")
          => /\ Len(calls') = Len(calls) - 1
             /\ nextId' = nextId /\ chan' = chan
             /\ UNCHANGED <<batch_timer, queued_task, pending_joins,
                            batch_member_list, batch_callers_count,
                            pending_update, last_message_time, detached>>]_vars

\* C7: a suppressed create is suspended at its edit while a deferred send waits
C7_Witness ==
  /\ last_act.op = "create" /\ last_act.supp /\ ~last_act.ret
  /\ last_act.ml # <<>>
  /\ calls # <<>> /\ calls[Len(calls)].op = "edit"
  /\ Sleeping(queued_task)

\* an update with count 0 has returned
C8_ZeroUpdateReturned ==
  /\ last_act.op = "update" /\ last_act.ret
  /\ \/ last_act.via = "delete"
     \/ last_act.via = "none" /\ last_act.ml = <<>>

\* C8 (as stated): after any update with count 0, last_message is unset,
\* pending_joins and the batch snapshot and count are cleared and a running
\* batch timer is cancelled, also when no live message existed.
C8_ZeroUpdateDeletes_AsStated == C8_ZeroUpdateReturned => Cleared

\* C8 (amended): update with count 0 routes to delete() exactly when a live
\* message exists: it then issues the channel delete of that message and,
\* when it returns, last_message is unset, pending_joins and the batch
\* snapshot and count are cleared and a running batch timer is cancelled.
\* With no live message it is a no-op: nothing is called and no field changes.
C8_ZeroUpdateDeletes ==
  /\ [](last_act.op = "update" /\ last_act.via = "delete" => Cleared)
  /\ [][ApiStep("update") /\ last_act'.ml = <<>> =>
          IF last_message # NoMsg
          THEN calls' = Append(calls, [op |-> "delete", msg |-> last_message,
                                       text |-> "", k |-> Ret, by |-> "update"])
          ELSE /\ calls' = calls
               /\ UNCHANGED <<last_message, last_message_time, queued_task,
                              pending_update, batch_timer, pending_joins,
                              batch_member_list, batch_callers_count, chan,
                              nextId, detached>>]_vars

\* C8: an update with count 0 has gone through delete() and returned while a
\* message it could not delete is still on the channel
C8_Witness ==
  last_act.op = "update" /\ last_act.via = "delete" /\ chan # {}

\* C9: a second delete() immediately after a first one has returned issues
\* no channel call and changes no field of the engine's state.
C9_DeleteIdempotent ==
  [][last_act.op = "delete" /\ last_act.ret /\ ApiStep("delete") =>
       /\ calls' = calls /\ chan' = chan /\ nextId' = nextId
       /\ UNCHANGED <<last_message, last_message_time, queued_task,
                      pending_update, batch_timer, pending_joins,
                      batch_member_list, batch_callers_count, detached>>]_vars

\* C9: the second of two delete() calls in a row has returned; the first had
\* cancelled a batch timer that has not yet run
C9_Witness ==
  last_act.op = "delete" /\ last_act.rep /\ last_act.ret /\ batch_timer.cancel

\* C10: when delete() returns, last_message is unset, pending_joins is empty,
\* batch_member_list and batch_callers_count are unset and a running batch
\* timer is cancelled, whatever the channel answered (deleted, already gone,
\* generic failure); delete() issues a channel delete, of the live message,
\* exactly when one existed.
C10_DeleteClears ==
  /\ [](last_act.op = "delete" /\ last_act.ret => Cleared)
  /\ [][ApiStep("delete") =>
          IF last_message # NoMsg
          THEN calls' = Append(calls, [op |-> "delete", msg |-> last_message,
                                       text |-> "", k |-> Ret, by |-> "delete"])
          ELSE calls' = calls]_vars

\* C10: delete() has returned after a channel delete that failed (the
\* message is still on the channel), with a batch timer cancelled
C10_Witness ==
  /\ last_act.op = "delete" /\ last_act.via = "delete"
  /\ chan # {}
  /\ batch_timer.cancel

\* C11: after delete() has returned no timer of either kind is pending: the
\* batch timer and the deferred send are finished or cancelled, and
\* pending_update is false.
C11_DeleteCancelsBothTimers ==
  last_act.op = "delete" /\ last_act.ret =>
    /\ done(batch_timer) \/ batch_timer.cancel
    /\ done(queued_task) \/ queued_task.cancel
    /\ ~pending_update

\* the step on which channel.send, awaited by a task that was not cancelled,
\* raises discord.HTTPException and the task runs to its end
SendFailed(task, after) ==
  task.st = "send" /\ ~task.cancel /\ after.st = "done" /\ nextId' = nextId

\* C12: when channel.send inside _send_message_now fails, last_message is
\* unset afterwards: no handle is stored, in particular not that of the
\* previous message, which _send_message_now has just deleted.
C12_FailedSendLeavesNoHandle ==
  [][SendFailed(batch_timer, batch_timer')
       \/ SendFailed(queued_task, queued_task') => last_message' = NoMsg]_vars

\* the fields of MessageState other than last_message, and the channel
EngineRest ==
  <<last_message_time, queued_task, pending_update, batch_timer,
    pending_joins, batch_member_list, batch_callers_count, detached, chan,
    nextId>>

\* C13: update with a live message and count > 0 issues exactly one edit of
\* that message carrying the format of the occupants and count, and no send;
\* when the edit returns, last_message is unset if the channel reported the
\* message gone and kept otherwise (success, generic failure), and nothing
\* else changes; with no live message update issues no channel call and
\* changes no state.
C13_UpdateEditsInPlace ==
  [][/\ (ApiStep("update") /\ last_message # NoMsg /\ last_act'.ml # <<>>)
          => /\ calls' = Append(calls,
                   [op |-> "edit", msg |-> last_message,
                    text |-> _format_message(last_act'.ml, Len(last_act'.ml)),
                    k |-> Ret, by |-> "update"])
             /\ last_message' = last_message
             /\ UNCHANGED EngineRest
     /\ (ApiStep("update") /\ last_message = NoMsg)
          => calls' = calls /\ last_message' = NoMsg /\ UNCHANGED EngineRest
     /\ (events' = events /\ last_act'.op = "update" /\ last_act'.via = "edit")
          => /\ Len(calls') = Len(calls) - 1
             /\ last_message' = IF last_act'.res = "gone" THEN NoMsg
                                ELSE last_message
             /\ UNCHANGED EngineRest]_vars

\* C13: an update's edit has come back with the message reported gone and
\* the handle has been dropped
C13_Witness ==
  /\ last_act.op = "update" /\ last_act.via = "edit" /\ last_act.res = "gone"
  /\ last_message = NoMsg

\* C14: a batch timer cancelled during its sleep stays cancelled until the
\* loop runs it, and then ends: it issues no channel call and changes no
\* field of MessageState; the operation that cancelled it has returned or
\* goes on normally (cancel() only marks the task).
C14_CancelledTimerDoesNothing ==
  [][batch_timer.cancel /\ batch_timer.st = "sleep" =>
       /\ batch_timer'.st \in {"sleep", "done"}
       /\ batch_timer'.st = "sleep" => batch_timer'.cancel
       /\ batch_timer'.st = "done" =>
            /\ last_message' = last_message /\ calls' = calls
            /\ UNCHANGED <<last_message_time, queued_task, pending_update,
                           pending_joins, batch_member_list,
                           batch_callers_count, detached, chan, nextId>>]_vars

\* C14: a cancelled batch timer is past its deadline with joins pending
C14_Witness ==
  /\ batch_timer.cancel /\ batch_timer.st = "sleep"
  /\ now >= batch_timer.due
  /\ pending_joins # <<>> /\ batch_member_list # NoList

\* C15: when delete() is called while a batch timer is waiting, no message
\* is ever sent for that batch: the timer's channel.send never puts a message
\* on the channel.
C15_EmptiedBatchSendsNothing ==
  [][batch_timer.emptied /\ batch_timer.st = "send"
       /\ batch_timer'.st = "done" => nextId' = nextId]_vars

\* a create that is not suppressed arrives, with a channel set, as the first
\* person, or before any send, or 600 s or more after last_message_time
C16_OpensBatch ==
  /\ ApiStep("create") /\ ~last_act'.supp
  /\ target_channel
  /\ \/ last_act'.first
     \/ last_message_time = NoTime
     \/ now - last_message_time >= COOLDOWN

\* C16: a non-suppressed create that is first-person, or finds no send yet, or
\* comes 600 s or more after last_message_time (exactly 600 included) appends
\* only the snapshot's last occupant to pending_joins, leaves a batch timer
\* running (a task neither finished nor cancelled), stores the snapshot and
\* its count as batch_member_list and batch_callers_count, and sends nothing.
C16_CreateOpensBatch ==
  [][C16_OpensBatch =>
       /\ pending_joins' = IF last_act'.ml # <<>>
                           THEN Append(pending_joins,
                                       last_act'.ml[Len(last_act'.ml)])
                           ELSE pending_joins
       /\ ~done(batch_timer') /\ ~batch_timer'.cancel
       /\ batch_member_list' = last_act'.ml
       /\ batch_callers_count' = Len(last_act'.ml)
       /\ NothingSent /\ calls' = calls]_vars

\* channel.send returns a handle to the task `task`, which ends as `after`
Sent(task, after) ==
  task.st = "send" /\ ~task.cancel /\ after.st = "done" /\ nextId' # nextId

\* The steps of _send_message_now in the task `task`: it reaches channel.send
\* from its sleep only when last_message is unset, and otherwise from the
\* awaited delete of the message last_message referred to; that delete is
\* followed by the send whatever it answers, and changes nothing but the
\* channel; the handle a send returns becomes last_message.
C17_DeleteThenSend(task, after) ==
  /\ after.st = "send" /\ task.st # "send" =>
       IF task.st = "sleep" THEN last_message = NoMsg
       ELSE task.st = "del" /\ task.old # NoMsg /\ nextId' = nextId
  /\ after.st = "del" /\ task.st # "del" =>
       /\ task.st = "sleep" /\ after.old = last_message /\ last_message # NoMsg
       /\ nextId' = nextId /\ chan' = chan
  /\ task.st = "del" /\ after.st = "send" =>
       /\ ~task.cancel /\ after.old = task.old
       /\ chan' \in {chan, chan \ {task.old}}
       /\ last_message' = last_message
  /\ Sent(task, after) =>
       last_message' = nextId /\ chan' = chan \cup {nextId}

\* C17: every send of a new message, by the batch flush or by the deferred
\* send, first awaits the delete of the message last_message refers to when
\* there is one, goes on to channel.send whether that delete succeeds, finds
\* the message gone or fails, and a send that returns a handle stores it as
\* last_message; the delete is answered before the send is issued.
C17_SendDeletesPrevious ==
  [][/\ C17_DeleteThenSend(batch_timer, batch_timer')
     /\ C17_DeleteThenSend(queued_task, queued_task')]_vars

\* C17: the delete of the previous message failed, the message is still on
\* the channel, and the task has gone on to channel.send
C17_Witness ==
  /\ batch_timer.st = "send" /\ ~batch_timer.cancel
  /\ batch_timer.old # NoMsg /\ batch_timer.old \in chan
  /\ last_message = batch_timer.old

\* C18: with no target channel set, create (whatever its arguments) and
\* update return at once: no field of the engine's state changes, no timer
\* is started or cancelled, and no channel call is issued.
C18_NoChannelNoOp ==
  [][(ApiStep("create") \/ ApiStep("update")) /\ ~target_channel =>
       /\ last_act'.ret /\ last_act'.via = "none"
       /\ UNCHANGED <<last_message, calls>>
       /\ UNCHANGED EngineRest]_vars

\* C18: a first-person create with an occupant has returned, some time after
\* the start, with no channel set and no batch timer started
C18_Witness ==
  /\ ~target_channel
  /\ last_act.op = "create" /\ last_act.ret /\ last_act.first /\ ~last_act.supp
  /\ last_act.ml # <<>>
  /\ now > 0
  /\ done(batch_timer) /\ pending_joins = <<>>

\* the text the specification gives for the names u and a count n >= 1
C19_Text(u, n) ==
  IF n = 1 THEN u[1] \o " joined voice chat"
  ELSE IF n = 2 THEN u[1] \o " and " \o u[2] \o " are in voice chat"
  ELSE IF n = 3
  THEN u[1] \o ", " \o u[2] \o ", and " \o u[3] \o " are in voice chat"
  ELSE IF n = 4
  THEN u[1] \o ", " \o u[2] \o ", " \o u[3] \o ", and " \o u[4]
         \o " are in voice chat"
  ELSE u[1] \o ", " \o u[2] \o ", " \o u[3] \o ", and " \o ToString(n - 3)
         \o " others are in voice chat"

\* C19: for an occupant list whose length equals the count (1 or more),
\* _format_message gives "{name0} joined voice chat" for 1, the two, three
\* or four names in the supplied order with "and" before the last for 2, 3
\* and 4, and the first three names followed by "and {count-3} others are in
\* voice chat" for 5 or more; the text is a function of the two arguments.
C19_FormatByCount ==
  formatted.text # NoText /\ formatted.n >= 1
    /\ Len(formatted.ml) = formatted.n =>
      formatted.text = C19_Text([i \in 1..Len(formatted.ml) |->
                                   Names[formatted.ml[i]]], formatted.n)

\* C19: six occupants, not in the order of their ids, formatted with the
\* channel set
C19_Witness ==
  /\ target_channel
  /\ formatted.ml = <<3, 1, 2, 6, 5, 4>> /\ formatted.n = 6
  /\ formatted.text = "Charlie, Alice, Bob, and 3 others are in voice chat"

\* C20: _format_message gives "{count} people are in voice chat" whenever
\* the count is 0 or the occupant list is empty: with an empty list for any
\* count, and with count 0 ("0 people are in voice chat") for any list.
C20_ZeroOrEmptyPeople ==
  formatted.text # NoText /\ (formatted.n = 0 \/ formatted.ml = <<>>) =>
    formatted.text = ToString(formatted.n) \o " people are in voice chat"

\* a raw voice event is handled on this step
VoiceStep == events' # events /\ voice'.on

\* C21: the classifier returns "join" exactly when the after-channel is the
\* watched channel and the before-channel is not, "leave" exactly when the
\* before-channel is the watched channel and the after-channel is not, and
\* no action otherwise (neither watched, or both); when it returns no action
\* the handler changes nothing in the engine or the store and calls no
\* operation of the engine.
C21_ClassifierGatesHandlers ==
  [][VoiceStep =>
       /\ voice'.action = "join" <=>
            (voice'.after = WatchedChannel /\ voice'.before # WatchedChannel)
       /\ voice'.action = "leave" <=>
            (voice'.before = WatchedChannel /\ voice'.after # WatchedChannel)
       /\ voice'.action \in {"join", "leave", NoAction}
       /\ voice'.action = NoAction =>
            /\ voice'.made = <<>>
            /\ UNCHANGED <<db_callers, history, db_connection, last_message,
                           calls>>
            /\ UNCHANGED EngineRest]_vars

\* C21: a member has switched from another channel into the watched one and
\* is stored
C21_Witness ==
  /\ voice.on /\ voice.before = "other" /\ voice.after = WatchedChannel
  /\ voice.action = "join"
  /\ \E i \in DOMAIN db_callers : db_callers[i] = voice.user

\* a suspended operation that only has to return is resumed on this step
ReturnStep == voice'.on /\ voice'.k.k = "ret"

\* C22: on a leave event the leaving member is removed from the store before
\* the count is read, and the engine gets exactly one call: delete() when no
\* caller remains, update with the remaining callers and their number when
\* some do; no create, and nothing more when that call returns.
C22_LeaveCallsOnce ==
  [][/\ VoiceStep /\ voice'.action = "leave" =>
          LET rest == SelectSeq(db_callers, LAMBDA x : x # voice'.user)
          IN /\ db_callers' = rest
             /\ voice'.made =
                  IF Len(rest) = 0
                  THEN <<[op |-> "delete", ml |-> <<>>, n |-> 0,
                          first |-> FALSE, supp |-> FALSE]>>
                  ELSE <<[op |-> "update", ml |-> rest, n |-> Len(rest),
                          first |-> FALSE, supp |-> FALSE]>>
     /\ ReturnStep => voice'.made = <<>>]_vars

\* C22: one of two callers has left and update was given the other one
C22_Witness ==
  /\ voice.on /\ voice.action = "leave"
  /\ Len(db_callers) = 1
  /\ Len(voice.made) = 1 /\ voice.made[1].op = "update"
  /\ voice.made[1].ml = db_callers
  /\ calls # <<>>

\* the create a join handler makes, given the table after the insertion and
\* the answer of the rejoin check
C23_Create(member_list, recent) ==
  [op |-> "create", ml |-> member_list, n |-> Len(member_list),
   first |-> Len(member_list) = 1, supp |-> recent]

C23_Update(member_list) ==
  [op |-> "update", ml |-> member_list, n |-> Len(member_list),
   first |-> FALSE, supp |-> FALSE]

\* what the handler of a join event of voice'.user does on the step of the
\* event
C23_JoinCalls ==
  LET u == voice'.user
      recent == was_recently_connected(St, u)
      cr == C23_Create(db_callers', recent)
      up == C23_Update(db_callers')
  IN /\ db_callers' = IF \E i \in DOMAIN db_callers : db_callers[i] = u
                      THEN db_callers ELSE Append(db_callers, u)
     /\ history'[u] = NOW(execute(St))
     /\ IF Len(db_callers') = 1
        THEN voice'.made = <<cr>>
        ELSE \/ voice'.made = <<up, cr>>
             \/ /\ voice'.made = <<up>>
                /\ calls' # <<>>
                /\ calls'[Len(calls')].k =
                     [k |-> "create", ml |-> cr.ml, n |-> cr.n,
                      first |-> cr.first, supp |-> cr.supp]

\* ... and on the step where the edit of a suspended update returns
C23_ResumeCalls ==
  (voice'.on /\ voice'.k.k = "create") =>
    /\ \E i \in DOMAIN calls : calls[i].k = voice'.k
    /\ voice'.made = <<[op |-> "create", ml |-> voice'.k.ml,
                        n |-> voice'.k.n, first |-> voice'.k.first,
                        supp |-> voice'.k.supp]>>

\* C23: on a join event the rejoin check is made on the store as it was
\* before the join is logged and the member stored, then the join is logged
\* and the member stored; is_first_person is true exactly when the table
\* holds one caller after the insertion; update (with the table) is called
\* before create exactly when the joiner is not the first person; create is
\* called once, with suppress_notification equal to the answer of the rejoin
\* check: at once, or, when update is suspended at its channel call, as soon
\* as that call returns.
C23_JoinCallsInOrder ==
  [][/\ VoiceStep /\ voice'.action = "join" => C23_JoinCalls
     /\ C23_ResumeCalls]_vars

\* the part of C23 that holds: the same, for the join events whose rejoin
\* check returns
C23_WhenCheckReturns ==
  [][/\ (/\ VoiceStep /\ voice'.action = "join"
         /\ db_connection'.tx # Aborted) => C23_JoinCalls
     /\ C23_ResumeCalls]_vars

\* C24: when a batch timer is running (sleeping, not cancelled) and a
\* non-suppressed create arrives, the join is folded into that batch whatever
\* the time since last_message_time: the snapshot's last occupant is appended
\* to pending_joins, batch_member_list and batch_callers_count take the
\* snapshot and its count, and no deferred send is scheduled, cancelled or
\* replaced.
C24_FoldIntoRunningBatch ==
  [][ApiStep("create") /\ ~last_act'.supp /\ target_channel
       /\ Sleeping(batch_timer) =>
         /\ pending_joins' = IF last_act'.ml # <<>>
                             THEN Append(pending_joins,
                                         last_act'.ml[Len(last_act'.ml)])
                             ELSE pending_joins
         /\ batch_member_list' = last_act'.ml
         /\ batch_callers_count' = Len(last_act'.ml)
         /\ Frame(batch_timer') = Frame(batch_timer)
         /\ Frame(queued_task') = Frame(queued_task)
         /\ pending_update' = pending_update]_vars

\* C25: in every reachable state the batch timer and the deferred send are
\* not both pending (asleep and not cancelled): at most one of the two
\* mechanisms is waiting to send the next message.
C25_OnePendingMechanism ==
  ~(Sleeping(batch_timer) /\ Sleeping(queued_task))

\* C26: a create that opens a batch while a batch timer has not finished
\* leaves that timer as it is, deadline included; a batch timer is started
\* only by a create that finds none unfinished, and is then due BatchDelay
\* later; its deadline never moves while it sleeps, and it goes on to its
\* flush exactly at that deadline, however many joins were folded in.
C26_TimerNotRestarted ==
  [][/\ (C16_OpensBatch /\ ~done(batch_timer)) =>
          Frame(batch_timer') = Frame(batch_timer)
     /\ (batch_timer'.st = "sleep" /\ Frame(batch_timer') # Frame(batch_timer)
           /\ ~(batch_timer.st = "sleep" /\ batch_timer'.cancel)) =>
          /\ C16_OpensBatch /\ done(batch_timer)
          /\ batch_timer'.due = now + BatchDelay
     /\ (batch_timer.st = "sleep" /\ batch_timer'.st = "sleep") =>
          batch_timer'.due = batch_timer.due
     /\ (batch_timer.st = "sleep" /\ InFlight(batch_timer')) =>
          /\ now = batch_timer.due /\ ~batch_timer.cancel
          /\ pending_joins' = pending_joins]_vars

\* C26: a second join has been folded in at the very end of the window and
\* the timer is still due at the time fixed by the first
C26_Witness ==
  /\ Sleeping(batch_timer) /\ now = batch_timer.due
  /\ Len(pending_joins) = 2
  /\ last_act.op = "create" /\ ~last_act.supp

\* the batch flush's channel.send returns and the flush runs to its end
FlushEnds ==
  batch_timer.st = "send" /\ ~batch_timer.cancel /\ batch_timer'.st = "done"

\* C27: when a batch flush completes, every join recorded in pending_joins,
\* those folded in while the flush's channel calls were in flight included,
\* is among the occupants of the message the flush sent; after it
\* pending_joins is empty and batch_member_list and batch_callers_count are
\* unset.
C27_FlushLosesNoJoin ==
  [][FlushEnds =>
       /\ \A i \in DOMAIN pending_joins :
            \E j \in DOMAIN batch_timer.ml : batch_timer.ml[j] = pending_joins[i]
       /\ pending_joins' = <<>>
       /\ batch_member_list' = NoList
       /\ batch_callers_count' = NoCount]_vars

\* C28 (as stated): the text a deferred send sends is the format of the
\* occupant snapshot, with its full count, that was passed to the create
\* which enqueued it.
C28_DeferredSendsSnapshot_AsStated ==
  InFlight(queued_task) =>
    _format_message(queued_task.ml, queued_task.n)
      = _format_message(queued_task.offered, Len(queued_task.offered))

\* C28 (amended): the text a deferred send sends is the format of the last
\* occupant alone of the snapshot passed to the create which enqueued it,
\* with count 1 ("{name} joined voice chat").
C28_DeferredSendsSnapshot ==
  InFlight(queued_task) =>
    /\ queued_task.offered # NoList /\ queued_task.offered # <<>>
    /\ queued_task.ml = <<queued_task.offered[Len(queued_task.offered)]>>
    /\ queued_task.n = 1
    /\ _format_message(queued_task.ml, queued_task.n)
         = Names[queued_task.offered[Len(queued_task.offered)]]
             \o " joined voice chat"

\* C28: a deferred send enqueued by a create with two occupants has fired
C28_Witness ==
  /\ InFlight(queued_task) /\ ~queued_task.cancel
  /\ queued_task.offered # NoList /\ Len(queued_task.offered) = 2

\* C29: no deferred send is ever created while last_message_time is unset,
\* by create or otherwise; and _queue_message called without it does nothing:
\* no task is started, none is cancelled, pending_update keeps its value and
\* nothing goes to the channel.
C29_EnqueueNeedsTime ==
  [][/\ (queued_task'.st = "sleep" /\ Frame(queued_task') # Frame(queued_task))
          => last_message_time # NoTime
     /\ (ApiStep("enqueue") /\ last_message_time = NoTime) =>
          /\ Frame(queued_task') = Frame(queued_task)
          /\ Frame(batch_timer') = Frame(batch_timer)
          /\ pending_update' = pending_update
          /\ detached' = detached /\ calls' = calls
          /\ NothingSent]_vars

\* C29: _queue_message was called for an occupant while a first batch was
\* still waiting and nothing had been sent
C29_Witness ==
  /\ last_act.op = "enqueue" /\ last_act.ml # <<>>
  /\ last_message_time = NoTime
  /\ Sleeping(batch_timer) /\ pending_joins # <<>>
  /\ queued_task = NoTask /\ ~pending_update

\* C30: last_message_time changes only on a step where channel.send has
\* returned a new handle to a batch flush or to a deferred send, and is then
\* the time of that step; an edit by update leaves it as it is, and so does a
\* flush or a deferred send whose send fails.
C30_StampOnlyOnSend ==
  [][last_message_time' # last_message_time =>
       /\ nextId' # nextId /\ last_message' = nextId
       /\ last_message_time' = now]_vars

\* a deferred send is pending: its task is neither finished nor cancelled
C31_Pending(task) == ~done(task) /\ ~task.cancel

\* a deferred send is still wanted: one is pending, and delete() has not just
\* returned (delete() is called when the last occupant has left)
C31_Wanted ==
  C31_Pending(queued_task) /\ ~(last_act.op = "delete" /\ last_act.ret)

\* C31: pending_update is true exactly while a deferred send is still wanted:
\* true while one is pending, false once it has completed or has been
\* cancelled, and false when delete() has returned.
C31_FlagMarksWantedSend == pending_update <=> C31_Wanted

\* the flag follows the task alone: it is true in exactly the states where
\* queued_task is a task neither finished nor cancelled
C31_FlagWhileTaskPending == pending_update <=> C31_Pending(queued_task)

\* deferred sends that reset() has left without a field
C31_Asleep(b) ==
  {o \in BagToSet(b) : o.kind = "queued" /\ o.task.st = "sleep"}

C31_AtChannel(b) ==
  {o \in BagToSet(b) : o.kind = "queued" /\ InFlight(o.task)}

\* a deferred send whose sleep ends with the flag false sends nothing: it
\* goes to no channel call
C31_FlagFalseSendsNothing ==
  [][/\ ~pending_update /\ events' = events
     /\ C31_Asleep(orphaned') # C31_Asleep(orphaned)
     => /\ C31_AtChannel(orphaned') \subseteq C31_AtChannel(orphaned)
        /\ NothingSent]_vars

\* C32: with the event loop scheduling every timer, an occupant recorded in
\* pending_joins does not stay there forever: the batch is flushed, or
\* emptied by delete().
C32_PendingJoinsLeave == (pending_joins # <<>>) ~> (pending_joins = <<>>)

\* the part of C32 that holds: while the batch timer is running (neither
\* finished nor cancelled), what is in pending_joins leaves it
C32_RunningBatchEnds ==
  (pending_joins # <<>> /\ ~done(batch_timer) /\ ~batch_timer.cancel)
    ~> (pending_joins = <<>>)

\* no id occurs twice in the sequence q
C33_Unique(q) == \A i, j \in DOMAIN q : i # j => q[i] # q[j]

\* the handler of this join event got as far as add_caller: its rejoin check
\* returned
C33_AddCallerCalled ==
  VoiceStep /\ voice'.action = "join" /\ db_connection'.tx # Aborted

\* C33: the store of callers holds each id at most once.  add_caller, which
\* a join event calls, for a member already stored leaves the store as it is
\* and returns False; for a new member it appends the id and returns True.  A leave
\* event for a member not stored leaves the store as it is and del_caller
\* returns False; one for a stored member removes exactly that id and returns
\* True.  The count read afterwards is the number of ids stored, and every
\* member list the handlers give to update or create has unique ids and comes
\* with a count equal to its length.
C33_StoreHoldsEachIdOnce ==
  [][/\ C33_Unique(db_callers) /\ C33_Unique(db_callers')
     /\ get_num_callers(St) = Cardinality({db_callers[i] : i \in DOMAIN db_callers})
     /\ \A i \in DOMAIN voice'.made :
          voice'.made[i].op # "delete" =>
            /\ C33_Unique(voice'.made[i].ml)
            /\ voice'.made[i].n = Len(voice'.made[i].ml)
     /\ C33_AddCallerCalled =>
          LET s == log_join_leave(execute(St), voice'.user, "join")
          IN IF InTable(St, voice'.user)
             THEN db_callers' = db_callers /\ ~add_caller_returns(s, voice'.user)
             ELSE /\ db_callers' = Append(db_callers, voice'.user)
                  /\ add_caller_returns(s, voice'.user)
     /\ VoiceStep /\ voice'.action = "leave" =>
          LET s == log_join_leave(St, voice'.user, "leave")
          IN IF ~InTable(St, voice'.user)
             THEN db_callers' = db_callers /\ ~del_caller_returns(s, voice'.user)
             ELSE /\ db_callers' = SelectSeq(db_callers,
                                             LAMBDA x : x # voice'.user)
                  /\ Len(db_callers') = Len(db_callers) - 1
                  /\ del_caller_returns(s, voice'.user)]_vars

\* a join event has arrived for a member who was stored already (a new
\* member would stand last), and the handler has gone on to call the engine
\* with the store's two members
C33_Witness ==
  /\ voice.on /\ voice.action = "join" /\ voice.user = 1
  /\ db_callers = <<1, 2>>
  /\ voice.made # <<>>
  /\ voice.made[Len(voice.made)].ml = <<1, 2>>
  /\ voice.made[Len(voice.made)].n = 2

\* C34: a first-person create of a joiner (not suppressed, channel set) that
\* finds the batch timer cancelled by delete() but not yet run by the loop
\* ends with a batch timer that is running: one that sleeps, is not
\* cancelled, and is due a batch delay after the create.
C34_CancelledTimerNotActive ==
  [][ApiStep("create") /\ last_act'.first /\ ~last_act'.supp
       /\ last_act'.ml # <<>> /\ target_channel /\ batch_timer.cancel
       => /\ Sleeping(batch_timer')
          /\ batch_timer'.due = now + BatchDelay]_vars

\* delete() runs on this step: called and not suspended, or resumed after its
\* channel call (also when update() called it for a count of zero)
C35_DeleteRuns ==
  \/ ApiStep("delete") /\ last_act'.ret
  \/ ApiStep("update") /\ last_act'.ml = <<>> /\ last_act'.ret
  \/ last_act'.via = "delete"

\* C35: last_message_time, once set, is never unset and never decreases; it
\* changes only when a timer's send has returned, and then to the time of
\* that step.  delete() leaves it as it is, so a create that comes after it,
\* not as first person and less than 600 s after the last send, is still
\* deferred to 600 s after that send.
C35_SendTimeKept ==
  [][/\ last_message_time # NoTime =>
          last_message_time' # NoTime /\ last_message_time' >= last_message_time
     /\ last_message_time' # last_message_time =>
          /\ last_message_time' = now
          /\ \/ batch_timer.st = "send" /\ batch_timer'.st = "done"
             \/ queued_task.st = "send" /\ queued_task'.st = "done"
     /\ C35_DeleteRuns => last_message_time' = last_message_time
     /\ ApiStep("create") /\ ~last_act'.first /\ ~last_act'.supp
          /\ last_act'.ml # <<>> /\ target_channel /\ last_count = 0
          /\ last_message_time # NoTime /\ now - last_message_time < COOLDOWN
          => /\ Sleeping(queued_task')
             /\ queued_task'.due = last_message_time + COOLDOWN]_vars

\* a message was sent at 30 s and deleted when the room emptied; a create
\* that came after that, not as first person, has been deferred to 630 s
C35_Witness ==
  /\ last_act.op = "create" /\ ~last_act.first /\ ~last_act.supp
  /\ last_act.ml # <<>> /\ last_act.via = "none"
  /\ nextId = 2 /\ last_message = NoMsg /\ chan = {}
  /\ last_message_time = BatchDelay
  /\ Sleeping(queued_task)
  /\ queued_task.due = BatchDelay + COOLDOWN

\* a join event is handled on this step and its handler gets as far as create
C36_JoinCreates ==
  /\ VoiceStep /\ voice'.action = "join"
  /\ \E i \in DOMAIN voice'.made : voice'.made[i].op = "create"

\* C36: when the handler of a join event calls create, the occupant that
\* create appends to pending_joins, or gives to the deferred send, is the
\* member whose join the event reports.
C36_RecordsTheJoiner ==
  [][C36_JoinCreates =>
       /\ pending_joins' # pending_joins =>
            pending_joins' = Append(pending_joins, voice'.user)
       /\ queued_task' # queued_task /\ Sleeping(queued_task') =>
            queued_task'.ml = <<voice'.user>>]_vars

\* C37: create with suppress_notification and no live message, whatever
\* is_first_person, the member list and the time since the last send are,
\* returns at once: it changes no field of MessageState, starts and cancels no
\* task, and makes no channel call (no send, no edit, no delete).
C37_SuppressedCreateWithoutMessage ==
  [][ApiStep("create") /\ last_act'.supp /\ last_message = NoMsg
       => /\ last_act'.ret
          /\ UNCHANGED <<last_message, last_message_time, queued_task,
                         pending_update, batch_timer, pending_joins,
                         batch_member_list, batch_callers_count>>
          /\ UNCHANGED <<calls, detached, chan, nextId>>]_vars

\* a suppressed first-person create has returned with the channel set, no
\* live message and no timer, more than 600 s after the last send
C37_Witness ==
  /\ last_act.op = "create" /\ last_act.supp /\ last_act.first
  /\ last_act.ml # <<>> /\ last_act.ret /\ last_act.via = "none"
  /\ target_channel /\ last_message = NoMsg
  /\ last_message_time # NoTime /\ now - last_message_time >= COOLDOWN
  /\ done(batch_timer) /\ done(queued_task) /\ pending_joins = <<>>

\* no timer is pending: neither task is still sleeping or sending, and no
\* cancelled task is left to unwind
C38_TimersIdle ==
  done(batch_timer) /\ done(queued_task) /\ detached = EmptyBag

\* the engine is quiescent: no timer is pending and no public operation is
\* suspended at a channel call
C38_Quiescent == C38_TimersIdle /\ calls = <<>>

\* a step of the loop that is neither a voice event nor the continuation of
\* a handler's create, update or delete
C38_LoopStep == events' = events /\ calls' = calls

\* C38: under the event loop's scheduling the engine becomes quiescent once
\* events stop: every timer that was started ends (by running to its end or
\* by cancellation) and every suspended call returns.  No timer starts a
\* timer: after a step of the loop alone a task that sleeps is the task that
\* slept before.  And while no timer is pending and no call is suspended,
\* nothing reaches the channel and no timer appears until the next event.
C38_ReachesQuiescence ==
  /\ (~C38_Quiescent) ~> C38_Quiescent
  /\ [][/\ C38_LoopStep /\ batch_timer'.st = "sleep" =>
             batch_timer' = batch_timer
        /\ C38_LoopStep /\ queued_task'.st = "sleep" =>
             queued_task' = queued_task
        /\ C38_LoopStep /\ C38_Quiescent =>
             /\ NothingSent
             /\ C38_Quiescent']_vars

\* events have stopped at the horizon, the clock has run on to the end of
\* the last sleep, both kinds of timer have fired and ended, and a message
\* is on the channel
C38_Witness ==
  /\ C38_Quiescent
  /\ now > MaxTime
  /\ batch_timer.st = "done" /\ queued_task.st = "done"
  /\ last_message # NoMsg /\ chan = {last_message}

====
